---- MODULE Spec2Model ----
(***************************************************************************)
(* HDL Workshop Board (workshop.py): the Cin7 client with bounded retries  *)
(* (cin7_get, cin7_put), the paginated fetch of kickplate orders           *)
(* (fetch_kickplate_orders), the stage update (update_order_stage) and the *)
(* two Flask routes that call them (api_jobs, api_update_stage).           *)
(*                                                                         *)
(* One server request is handled at a time in the model: the handlers      *)
(* share no mutable state, so concurrent requests do not interact.  A step *)
(* of the model is the arrival of one HTTP response (or transport failure) *)
(* from the remote system together with all the code that runs up to the   *)
(* next HTTP request or to the end of the handler.                         *)
(***************************************************************************)
EXTENDS Integers, Sequences, FiniteSets, TLC

(***************************************************************************)
(* Configuration (workshop.py, CONFIGURATION section).                     *)
(***************************************************************************)
KICKPLATE_STAGES ==
    << "Kickplate - New", "Kickplate - Processing",
       "Kickplate - Job Complete", "Kickplate - To Collect" >>

KICKPLATE_STAGE_PREFIX == "Kickplate - "

API_MAX_RETRIES == 3

\* API_RETRY_DELAY = 1.0 seconds; delays are whole seconds in the model.
API_RETRY_DELAY == 1

\* resp.text[:300] in the HTTP error message.
ErrorTextLimit == 300

\* "rows": 250 and len(orders) < 250.
PageRows == 250

\* while page <= 100.
MaxPage == 100

(***************************************************************************)
(* Bounds of the model.                                                    *)
(***************************************************************************)
\* Order ids a stage update is requested for: 1..MaxOrderId.
MaxOrderId == 2

\* Short pages hold 0..MaxShort records (besides PageRows - 1 and PageRows).
MaxShort == 2

(***************************************************************************)
(* Python values.  None is a value of its own; a JSON value decoded by     *)
(* resp.json() carries its type in t and its content in v.                 *)
(***************************************************************************)
None == "<None>"

JNull == [t |-> "null", v |-> 0]
JBool(b) == [t |-> "bool", v |-> b]
JNum(n) == [t |-> "num", v |-> n]
JStr(s) == [t |-> "str", v |-> s]
JList(items) == [t |-> "list", v |-> items]
JObj(fields) == [t |-> "dict", v |-> fields]

\* A JSON number with a fraction, counted in halves: JFloat(5) is 2.5.
JFloat(halves) == [t |-> "float", v |-> halves]

\* A body resp.json() cannot decode (absent, empty or not JSON): it raises.
NotJson == [t |-> "undecodable", v |-> 0]

\* A JSON array of order records, as a page of the orders listing returns
\* it.  Order records are immutable once decoded, so a list of them is held
\* by reference: the run of n consecutive records first, first + 1, ... of
\* the remote system's listing (Raw gives the dict behind a reference).
Run(first, n) == [first |-> first, n |-> n]
JRecords(first, n) == [t |-> "records", v |-> Run(first, n)]

\* isinstance(x, list), isinstance(x, dict)
IsList(j) == j.t \in {"list", "records"}
IsDict(j) == j.t = "dict"

\* key in d
HasKey(d, key) == key \in DOMAIN d.v

\* d.get(key, default)
DictGet(d, key, default) == IF HasKey(d, key) THEN d.v[key] ELSE default

\* Python truth value of a decoded JSON value.
Truthy(j) ==
    CASE j.t = "null" -> FALSE
      [] j.t = "bool" -> j.v
      [] j.t = "num" -> j.v # 0
      [] j.t = "float" -> j.v # 0
      [] j.t = "str" -> j.v # ""
      [] j.t = "list" -> j.v # <<>>
      [] j.t = "records" -> j.v.n # 0
      [] j.t = "dict" -> DOMAIN j.v # {}
      [] OTHER -> FALSE

\* x is False
IsFalse(j) == j.t = "bool" /\ j.v = FALSE

\* sep.join(strs) for a sequence of strings
RECURSIVE Join(_, _)
Join(strs, sep) ==
    IF strs = <<>> THEN ""
    ELSE IF Len(strs) = 1 THEN strs[1]
    ELSE strs[1] \o sep \o Join(Tail(strs), sep)

\* s.startswith(prefix)
StartsWith(s, prefix) ==
    Len(s) >= Len(prefix) /\ SubSeq(s, 1, Len(prefix)) = prefix

\* text[:n]
Truncate(text, n) == IF Len(text) > n THEN SubSeq(text, 1, n) ELSE text

\* x in seq
InSeq(x, seq) == \E i \in 1..Len(seq) : seq[i] = x

(***************************************************************************)
(* What the remote system (or the transport) may answer to one request.    *)
(***************************************************************************)
\* Status codes other than 429 that neither call accepts (a 2xx among them).
ErrorStatuses == {202, 500}

\* Status codes cin7_put accepts.
PutOkStatuses == {200, 201, 204}

\* resp.text of an error response.
ErrorTexts == {"", "Server Error"}

\* str(e) of a requests.exceptions.RequestException.
ExceptionTexts == {"Read timed out.", "Connection refused"}

\* The same for a GET: one status that is a 2xx but not 200, one message.
GetErrorStatuses == {204}
GetErrorTexts == {"Server Error"}
GetExceptionTexts == {"Exceeded 30 redirects."}

\* Bodies of a 2xx answer to a PUT.
PutBodies ==
    { NotJson,
      JObj([success |-> JBool(FALSE)]),
      JList(<<>>),
      JList(<<JNum(1)>>),
      JList(<<JNull>>),
      JList(<<JObj([id |-> JNum(1)])>>),
      JList(<<JObj([success |-> JBool(TRUE)])>>),
      JList(<<JObj([success |-> JNum(0)])>>),
      JList(<<JObj([success |-> JBool(TRUE)]),
              JObj([success |-> JBool(FALSE)])>>),
      JList(<<JObj([success |-> JBool(FALSE)])>>),
      JList(<<JObj([success |-> JBool(FALSE), errors |-> JNull])>>),
      JList(<<JObj([success |-> JBool(FALSE), errors |-> JList(<<>>)])>>),
      JList(<<JObj([success |-> JBool(FALSE),
                    errors |-> JList(<<JStr("Invalid stage")>>)])>>),
      JList(<<JObj([success |-> JBool(FALSE),
                    errors |-> JList(<<JStr("Invalid stage"),
                                       JStr("Order locked")>>)])>>) }

\* The JSON bodies a stage-update request may carry (request.get_json()).
StageInputs ==
    { "Kickplate - New", "Kickplate - Processing",
      "Kickplate - Job Complete", "Kickplate - To Collect",
      "NotAKnownStage", "Kickplate - Archived", "kickplate - new", "" }

RequestBodies ==
    { JNull, JObj([other |-> JStr("x")]) }
        \cup { JObj([stage |-> JStr(s)]) : s \in StageInputs }

(***************************************************************************)
(* Pieces of cin7_get / cin7_put / update_order_stage.                     *)
(***************************************************************************)
\* A variant of RateLimitDelay: the same delay after every 429.
RateLimitDelayFlat(att) == API_RETRY_DELAY * 2

\* time.sleep(API_RETRY_DELAY * (attempt + 1) * 2) after a 429
RateLimitDelay(att) == API_RETRY_DELAY * (att + 1) * 2

\* A variant of RetryDelay: the same delay after every failure.
RetryDelayFlat(att) == API_RETRY_DELAY

\* time.sleep(API_RETRY_DELAY * (attempt + 1)) after another failure
RetryDelay(att) == API_RETRY_DELAY * (att + 1)

\* if attempt < API_MAX_RETRIES - 1
SleepsAfterFailure(att) == att < API_MAX_RETRIES - 1

\* f"HTTP {resp.status_code}: {resp.text[:300]}"
HttpErrorMessage(code, text) ==
    "HTTP " \o ToString(code) \o ": " \o Truncate(text, ErrorTextLimit)

\* A variant of WrapPayload: the dict is sent as it is.
WrapPayloadBare(data) == data

\* payload = [data] if isinstance(data, dict) else data
WrapPayload(data) == IF IsDict(data) THEN JList(<<data>>) ELSE data

\* {"id": order_id, "stage": new_stage}
StageUpdateData(oid, stage) == JObj([id |-> JNum(oid), stage |-> JStr(stage)])

\* A variant of ValidStage: any stage of the kickplate namespace passes.
ValidStagePrefixOnly(stage) == StartsWith(stage, KICKPLATE_STAGE_PREFIX)

\* new_stage in KICKPLATE_STAGES
ValidStage(stage) == InSeq(stage, KICKPLATE_STAGES)

\* "; ".join(errors) if errors else "Cin7 reported failure"
\* (errors, when a list, is a list of strings)
FailureText(errors) ==
    IF Truthy(errors)
    THEN Join([i \in 1..Len(errors.v) |-> errors.v[i].v], "; ")
    ELSE "Cin7 reported failure"

\* A variant of PutBodyVerdict: the status code alone decides.
PutBodyVerdictStatusOnly(body) == [kind |-> "success"]

\* The inspection of a 2xx PUT response (the inner try of cin7_put):
\* what the call does with the body.
PutBodyVerdict(body) ==
    IF body.t = "undecodable"
    THEN [kind |-> "success"]                     \* ValueError: pass
    ELSE IF IsList(body) /\ Truthy(body)
    THEN LET item == body.v[1] IN
         IF ~IsDict(item)
         THEN [kind |-> "raise", exc |-> "AttributeError"]  \* item.get
         ELSE IF IsFalse(DictGet(item, "success", JNull))
         THEN [kind |-> "failure",
               error |-> FailureText(DictGet(item, "errors", JList(<<>>)))]
         ELSE [kind |-> "success"]
    ELSE [kind |-> "success"]

(***************************************************************************)
(* State.                                                                  *)
(***************************************************************************)
VARIABLES
    pc,          \* "idle", "put" (in cin7_put), "get" (in cin7_get),
                 \* "got" (cin7_get has returned), "done"
    handler,     \* "none", "api_update_stage", "api_jobs"
    order_id,    \* update_order_stage: order_id
    new_stage,   \* update_order_stage: new_stage
    payload,     \* cin7_put: payload
    attempt,     \* cin7_get / cin7_put: iterations of the retry loop begun
    last_error,  \* cin7_get / cin7_put: last_error
    sleeps,      \* the delays the current call has slept, in order
    requests,    \* HTTP requests the current call has issued
    wire,        \* the JSON bodies of the PUT requests issued, in order
    resp_body,   \* cin7_put: the body of the latest 2xx response
    statuses,    \* the outcomes of the current call's requests, in order
    returned,    \* what cin7_get returned: "json", "None" ("none": nothing yet)
    result,      \* what update_order_stage returned
    raised,      \* the exception that escaped the cin7 call ("none" if none)
    response,    \* the response of the Flask route
    dataset,     \* which listing the remote system holds during a fetch
    page,        \* fetch_kickplate_orders: page
    all_orders,  \* fetch_kickplate_orders: all_orders, as a sequence of runs
    calls,       \* the page numbers cin7_get was called for, in order
    pageLens,    \* len(orders) of every page the loop got, in order
    \* --- the browser client (the script of HTML_TEMPLATE) ---
    board,       \* the cards of the four .card-list elements, in DOM order
    errorShown,  \* #error-banner has class show
    isDragging,  \* isDragging
    dragEl,      \* the drag in progress: its card, list and index at start
    updating,    \* the cards with class updating
    transitions, \* the updateStage calls whose fetch has not been answered
    origin,      \* for each of them, the from-list as it was before the drag
    loads,       \* the loadJobs calls whose fetch has not been answered
    renders,     \* how often loadJobs has filled the board
    drags,       \* how many drags the session has seen
    \* --- one run of the processing loop of fetch_kickplate_orders ---
    batch,       \* all_orders, as decoded dicts
    today,       \* today
    processed,   \* processed (NotRun until the loop has run)
    \* --- one call of parse_date ---
    written,     \* the date and the format date_value was written from
    date_value,  \* date_value
    parsed       \* what parse_date returned (NotCalled before the call)

callVars == <<attempt, last_error, sleeps, requests, statuses>>
putVars == <<order_id, new_stage, payload, wire, resp_body, result>>
fetchVars == <<dataset, page, all_orders, calls, pageLens, returned>>
serverVars == <<pc, handler, callVars, putVars, fetchVars, raised, response>>
clientVars == <<board, errorShown, isDragging, dragEl, updating, transitions,
                origin, loads, renders, drags>>
procVars == <<batch, today, processed>>
parseVars == <<written, date_value, parsed>>
\* What the Flask routes leave alone.
auxVars == <<clientVars, procVars, parseVars>>
vars == <<serverVars, auxVars>>

NoResult == [unset |-> TRUE]
NoBody == [t |-> "none", v |-> 0]
NoResponse == [status |-> 0, body |-> [unset |-> TRUE]]

\* No request is being handled.
ServerIdle ==
    /\ pc = "idle"
    /\ handler = "none"
    /\ order_id = 0
    /\ new_stage = ""
    /\ payload = JNull
    /\ attempt = 0
    /\ last_error = None
    /\ sleeps = <<>>
    /\ requests = 0
    /\ wire = <<>>
    /\ resp_body = NoBody
    /\ statuses = <<>>
    /\ returned = "none"
    /\ result = NoResult
    /\ raised = "none"
    /\ response = NoResponse
    /\ dataset = "none"
    /\ page = 0
    /\ all_orders = <<>>
    /\ calls = <<>>
    /\ pageLens = <<>>

\* No page of the board is open in a browser.
NoDrag == [card |-> [id |-> 0, node |-> 0], from |-> 0, oldIndex |-> 0]
ClientOff ==
    /\ board = [c \in 1..Len(KICKPLATE_STAGES) |-> <<>>]
    /\ errorShown = FALSE
    /\ isDragging = FALSE
    /\ dragEl = NoDrag
    /\ updating = {}
    /\ transitions = {}
    /\ origin = <<>>
    /\ loads = 0
    /\ renders = 0
    /\ drags = 0

\* The processing loop is not being looked at on its own.
NotRun == <<[unset |-> TRUE]>>
NoDate == [y |-> 0, m |-> 0, d |-> 0]
ProcOff ==
    /\ batch = <<>>
    /\ today = NoDate
    /\ processed = NotRun

\* parse_date is not being looked at on its own.
NotCalled == [t |-> "not called"]
NotWritten == [d |-> NoDate, fmt |-> 0]
ParseOff ==
    /\ written = NotWritten
    /\ date_value = JNull
    /\ parsed = NotCalled

Init == ServerIdle /\ ClientOff /\ ProcOff /\ ParseOff

(***************************************************************************)
(* api_update_stage -> update_order_stage -> cin7_put                      *)
(***************************************************************************)
\* result.get("error", "Unknown error")
ResultError(res) == IF "error" \in DOMAIN res THEN res.error ELSE "Unknown error"

\* The JSON answer of api_update_stage for what update_order_stage returned.
StageResponse(oid, stage, res) ==
    IF res.success
    THEN [status |-> 200,
          body |-> [success |-> TRUE, orderId |-> oid, newStage |-> stage]]
    ELSE [status |-> 500,
          body |-> [success |-> FALSE, error |-> ResultError(res),
                    orderId |-> oid]]

\* An exception nobody catches: Flask answers 500 without a JSON verdict.
UnhandledResponse(exc) == [status |-> 500, body |-> [unhandled |-> exc]]

\* The route is entered with an order id and a JSON request body.
api_update_stage(oid, data) ==
    /\ pc = "idle"
    /\ handler' = "api_update_stage"
    /\ order_id' = oid
    /\ UNCHANGED <<callVars, fetchVars, raised, wire, resp_body, auxVars>>
    /\ IF ~Truthy(data) \/ ~HasKey(data, "stage")
       THEN /\ pc' = "done"
            /\ response' =
                 [status |-> 400,
                  body |-> [success |-> FALSE,
                            error |-> "Missing 'stage' in request body"]]
            /\ UNCHANGED <<new_stage, payload, result>>
       ELSE LET stage == data.v["stage"].v IN
            /\ new_stage' = stage
            /\ IF ~ValidStage(stage)
               THEN /\ pc' = "done"
                    /\ result' = [success |-> FALSE,
                                  error |-> "Invalid stage: " \o stage]
                    /\ response' = StageResponse(oid, stage, result')
                    /\ UNCHANGED payload
               ELSE /\ pc' = "put"
                    /\ payload' = WrapPayload(StageUpdateData(oid, stage))
                    /\ UNCHANGED <<result, response>>

\* One PUT request leaves with the payload.
PutSent ==
    /\ pc = "put"
    /\ requests' = requests + 1
    /\ wire' = Append(wire, payload)

\* cin7_put returns res to update_order_stage, which returns it to the route.
PutReturns(res) ==
    /\ pc' = "done"
    /\ result' = res
    /\ response' = StageResponse(order_id, new_stage, res)
    /\ raised' = raised

\* The loop moves on after a failed attempt; it ends after API_MAX_RETRIES.
PutNextAttempt ==
    /\ attempt' = attempt + 1
    /\ IF attempt + 1 < API_MAX_RETRIES
       THEN /\ pc' = "put"
            /\ UNCHANGED <<result, response, raised>>
       ELSE PutReturns([success |-> FALSE, error |-> last_error'])

\* status 200, 201 or 204
PutOk(code, body) ==
    /\ PutSent
    /\ statuses' = Append(statuses, "ok")
    /\ resp_body' = body
    /\ LET verdict == PutBodyVerdict(body) IN
       /\ IF verdict.kind = "raise"
          THEN /\ pc' = "done"
               /\ raised' = verdict.exc
               /\ response' = UnhandledResponse(verdict.exc)
               /\ UNCHANGED <<result, last_error>>
          ELSE IF verdict.kind = "failure"
          THEN /\ last_error' = verdict.error
               /\ PutReturns([success |-> FALSE, error |-> verdict.error])
          ELSE /\ PutReturns([success |-> TRUE])
               /\ UNCHANGED last_error
    /\ UNCHANGED <<attempt, sleeps>>
    /\ UNCHANGED <<handler, order_id, new_stage, payload, fetchVars, auxVars>>

\* status 429: sleep, continue
PutRateLimited ==
    /\ PutSent
    /\ statuses' = Append(statuses, "429")
    /\ UNCHANGED resp_body
    /\ sleeps' = Append(sleeps, RateLimitDelay(attempt))
    /\ UNCHANGED last_error
    /\ PutNextAttempt
    /\ UNCHANGED <<handler, order_id, new_stage, payload, fetchVars, auxVars>>

\* any other status
PutHttpError(code, text) ==
    /\ PutSent
    /\ statuses' = Append(statuses, "http_error")
    /\ UNCHANGED resp_body
    /\ last_error' = HttpErrorMessage(code, text)
    /\ sleeps' = IF SleepsAfterFailure(attempt)
                 THEN Append(sleeps, RetryDelay(attempt)) ELSE sleeps
    /\ PutNextAttempt
    /\ UNCHANGED <<handler, order_id, new_stage, payload, fetchVars, auxVars>>

\* requests.exceptions.RequestException (timeout, connection failure, ...)
PutException(text) ==
    /\ PutSent
    /\ statuses' = Append(statuses, "exception")
    /\ UNCHANGED resp_body
    /\ last_error' = text
    /\ sleeps' = IF SleepsAfterFailure(attempt)
                 THEN Append(sleeps, RetryDelay(attempt)) ELSE sleeps
    /\ PutNextAttempt
    /\ UNCHANGED <<handler, order_id, new_stage, payload, fetchVars, auxVars>>

(***************************************************************************)
(* The orders listing of the remote system.                                *)
(***************************************************************************)
\* The listings the remote system may hold while a fetch runs.
Datasets == {"mixed", "foreign"}

\* The first record of page p when every earlier page was full.
FirstRef(p) == (p - 1) * PageRows + 1

\* The dict behind record reference r.  In the mixed listing every page
\* opens with eight records of different make (key spelling, void flag,
\* stage inside or outside the kickplate stages) and goes on with orders of
\* another department; the foreign listing holds no kickplate order that
\* is not void; the workshop listing is the small one a browser session
\* looks at: two new orders and one in processing.
Raw(ds, r) ==
    LET pos == ((r - 1) % PageRows) + 1
        filler == JObj([Id |-> JNum(r), Stage |-> JStr("Quote"),
                        IsVoid |-> JBool(FALSE)])
    IN
    IF ds = "workshop"
    THEN CASE r = 1 ->
                JObj([Id |-> JNum(r), Stage |-> JStr("Kickplate - New"),
                      IsVoid |-> JBool(FALSE)])
           [] r = 2 ->
                JObj([id |-> JNum(r), stage |-> JStr("Kickplate - New")])
           [] r = 3 ->
                JObj([Id |-> JNum(r), Stage |-> JStr("Kickplate - Processing"),
                      IsVoid |-> JBool(FALSE)])
           [] OTHER -> filler
    ELSE IF ds = "foreign"
    THEN IF pos = 1
         THEN JObj([Id |-> JNum(r), Stage |-> JStr("Kickplate - New"),
                    IsVoid |-> JBool(TRUE)])
         ELSE filler
    ELSE CASE pos = 1 ->
                JObj([Id |-> JNum(r), Stage |-> JStr("Kickplate - New"),
                      IsVoid |-> JBool(FALSE)])
           [] pos = 2 ->
                JObj([Id |-> JNum(r), Stage |-> JStr("Kickplate - Processing"),
                      IsVoid |-> JBool(TRUE)])
           [] pos = 3 ->
                JObj([id |-> JNum(r), stage |-> JStr("Kickplate - Processing"),
                      isVoid |-> JBool(FALSE)])
           [] pos = 4 ->
                JObj([Id |-> JNum(r), Stage |-> JStr("Kickplate - Archived"),
                      IsVoid |-> JBool(FALSE)])
           [] pos = 5 -> filler
           [] pos = 6 ->
                JObj([id |-> JNum(r), stage |-> JStr("Kickplate - Job Complete"),
                      isVoid |-> JBool(TRUE)])
           [] pos = 7 -> JObj([Id |-> JNum(r)])
           [] pos = 8 ->
                JObj([Id |-> JNum(r), Stage |-> JStr("Kickplate - To Collect")])
           [] OTHER -> filler

\* len(orders) of the pages the remote system may return.
PageLens == (0..MaxShort) \cup {PageRows - 1, PageRows}

\* A response that is one order record (a dict), with its reference.
SingleRecord(ds, r) == [t |-> "dict", v |-> Raw(ds, r).v, ref |-> r]

\* The decodable bodies of a 200 answer to the request for page p.
GetBodies(ds, p) ==
    { JRecords(FirstRef(p), n) : n \in PageLens }
      \cup { JObj([data |-> JRecords(FirstRef(p), n)]) : n \in PageLens }
      \cup { JObj([Data |-> JRecords(FirstRef(p), n)]) : n \in PageLens }
      \cup { SingleRecord(ds, FirstRef(p)),
             [t |-> "dict", ref |-> FirstRef(p),
              v |-> [data |-> JNull, Id |-> JNum(FirstRef(p))]],
             JObj([data |-> JNull]),
             JObj([message |-> JStr("no orders")]),
             JStr("OK"),
             JNull }

\* str(e) of the JSONDecodeError of an undecodable 200 body.
DecodeErrorText == "Expecting value: line 1 column 1 (char 0)"

(***************************************************************************)
(* fetch_kickplate_orders: the pagination loop.                            *)
(***************************************************************************)
\* A variant of WithinCeiling: the ceiling is one page late.
WithinCeilingLate(p) == p <= MaxPage + 1

\* while page <= 100
WithinCeiling(p) == p <= MaxPage

\* A variant of ShortPage: only an empty page ends the loop.
ShortPageNever(n) == FALSE

\* if len(orders) < 250: break
ShortPage(n) == n < PageRows

\* A variant of Extend: the page replaces what was collected.
ExtendReplacing(all, orders) == <<orders>>

\* all_orders.extend(orders)
Extend(all, orders) == Append(all, orders)

\* The shape of a page (lines 234-241): the orders of the response, or no
\* orders at all when the response is neither a list nor a dict.
NormalizeOrders(resp) ==
    IF IsList(resp)
    THEN [ok |-> TRUE, orders |-> resp.v]
    ELSE IF IsDict(resp)
    THEN LET orders == DictGet(resp, "data",
                               DictGet(resp, "Data", JRecords(1, 0)))
         IN
         IF IsList(orders)
         THEN [ok |-> TRUE, orders |-> orders.v]
         ELSE IF Truthy(DictGet(resp, "Id", JNull))
         THEN [ok |-> TRUE, orders |-> Run(resp.ref, 1)]
         ELSE [ok |-> TRUE, orders |-> Run(1, 0)]
    ELSE [ok |-> FALSE]

\* The record references of a run, and of a sequence of runs, in order.
RunRefs(run) == [i \in 1..run.n |-> run.first + i - 1]

RECURSIVE Flatten(_)
Flatten(runs) ==
    IF runs = <<>> THEN <<>>
    ELSE Flatten(SubSeq(runs, 1, Len(runs) - 1)) \o RunRefs(runs[Len(runs)])

(***************************************************************************)
(* fetch_kickplate_orders: the processing of the collected records.        *)
(***************************************************************************)
\* str.lower() of one character
LowerChar(c) ==
    LET upper == "ABCDEFGHIJKLMNOPQRSTUVWXYZ"
        lower == "abcdefghijklmnopqrstuvwxyz"
    IN
    IF \E i \in 1..26 : SubSeq(upper, i, i) = c
    THEN LET i == CHOOSE i \in 1..26 : SubSeq(upper, i, i) = c
         IN SubSeq(lower, i, i)
    ELSE c

\* name[0].lower() + name[1:]
LowerFirst(name) == LowerChar(SubSeq(name, 1, 1)) \o SubSeq(name, 2, Len(name))

\* a or b
PyOr(a, b) == IF Truthy(a) THEN a ELSE b

\* gf(name): order.get(name) or order.get(name[0].lower() + name[1:])
gf(order, name) ==
    PyOr(DictGet(order, name, JNull), DictGet(order, LowerFirst(name), JNull))

\* A variant of IsVoid: only the key IsVoid is looked at.
IsVoidExactOnly(order) == Truthy(DictGet(order, "IsVoid", JNull))

\* order.get("IsVoid") or order.get("isVoid")
IsVoid(order) ==
    Truthy(PyOr(DictGet(order, "IsVoid", JNull), DictGet(order, "isVoid", JNull)))

\* stage = gf("Stage") or ""
StageOf(order) == PyOr(gf(order, "Stage"), JStr("")).v

\* The records the processing loop keeps: not void, kickplate stage.
Kept(order) == ~IsVoid(order) /\ StartsWith(StageOf(order), KICKPLATE_STAGE_PREFIX)

\* The order appended to processed.
ProcessOrder(order) == [id |-> gf(order, "Id"), stage |-> StageOf(order)]

\* The list fetch_kickplate_orders returns for the records refs.
ProcessOrders(ds, refs) ==
    LET kept == SelectSeq(refs, LAMBDA r : Kept(Raw(ds, r)))
    IN [i \in 1..Len(kept) |-> ProcessOrder(Raw(ds, kept[i]))]

\* What fetch_kickplate_orders returns once the loop has ended.
Processed == ProcessOrders(dataset, Flatten(all_orders))

\* api_jobs: grouped[stage] for every kickplate stage, and the JSON body.
Grouped(orders) ==
    [i \in 1..Len(KICKPLATE_STAGES) |->
        SelectSeq(orders, LAMBDA o : o.stage = KICKPLATE_STAGES[i])]

JobsBody == [jobs |-> Grouped(Processed), totalCount |-> Len(Processed)]

(***************************************************************************)
(* api_jobs -> fetch_kickplate_orders -> cin7_get                          *)
(***************************************************************************)
\* fetch_kickplate_orders calls cin7_get for page p.
GetCalled(p) ==
    /\ pc' = "get"
    /\ calls' = Append(calls, p)
    /\ returned' = "none"
    /\ attempt' = 0
    /\ last_error' = None
    /\ sleeps' = <<>>
    /\ requests' = 0
    /\ statuses' = <<>>

\* The loop has ended: the records are processed and grouped, and api_jobs
\* answers with JobsBody.  The locals of the last cin7_get are gone.
FetchEnds ==
    /\ pc' = "done"
    /\ response' = [status |-> 200, body |-> [jobs |-> "JobsBody"]]
    /\ attempt' = 0
    /\ last_error' = None
    /\ sleeps' = <<>>
    /\ requests' = 0
    /\ statuses' = <<>>
    /\ UNCHANGED <<calls, returned, raised>>

api_jobs(ds) ==
    /\ pc = "idle"
    /\ handler' = "api_jobs"
    /\ dataset' = ds
    /\ page' = 1
    /\ all_orders' = <<>>
    /\ pageLens' = <<>>
    /\ GetCalled(1)
    /\ UNCHANGED <<putVars, raised, response, auxVars>>

\* One GET request leaves for the current page.
GetSent ==
    /\ pc = "get"
    /\ requests' = requests + 1

\* status 200 with a body resp.json() decodes: cin7_get returns it.
GetOk ==
    /\ GetSent
    /\ statuses' = Append(statuses, "ok")
    /\ pc' = "got"
    /\ returned' = "json"
    /\ UNCHANGED <<attempt, last_error, sleeps>>
    /\ UNCHANGED <<handler, dataset, page, all_orders, calls, pageLens>>
    /\ UNCHANGED <<putVars, raised, response, auxVars>>

\* The loop of cin7_get moves on after a failed attempt that set last_error
\* to err and slept the delays slept; after API_MAX_RETRIES attempts
\* cin7_get returns None.
GetNextAttempt(err, slept) ==
    /\ GetSent
    /\ last_error' = err
    /\ sleeps' = sleeps \o slept
    /\ attempt' = attempt + 1
    /\ IF attempt + 1 < API_MAX_RETRIES
       THEN pc' = "get" /\ UNCHANGED returned
       ELSE pc' = "got" /\ returned' = "None"
    /\ UNCHANGED <<handler, dataset, page, all_orders, calls, pageLens>>
    /\ UNCHANGED <<putVars, raised, response, auxVars>>

\* status 429: sleep, continue
GetRateLimited ==
    /\ statuses' = Append(statuses, "429")
    /\ GetNextAttempt(last_error, <<RateLimitDelay(attempt)>>)

\* any other status
GetHttpError(code, text) ==
    /\ statuses' = Append(statuses, "http_error")
    /\ GetNextAttempt(HttpErrorMessage(code, text),
                      IF SleepsAfterFailure(attempt)
                      THEN <<RetryDelay(attempt)>> ELSE <<>>)

\* requests.exceptions.Timeout
GetTimeout ==
    /\ statuses' = Append(statuses, "exception")
    /\ GetNextAttempt("Request timed out",
                      IF SleepsAfterFailure(attempt)
                      THEN <<RetryDelay(attempt)>> ELSE <<>>)

\* requests.exceptions.ConnectionError
GetConnectionError ==
    /\ statuses' = Append(statuses, "exception")
    /\ GetNextAttempt("Connection error",
                      IF SleepsAfterFailure(attempt)
                      THEN <<RetryDelay(attempt)>> ELSE <<>>)

\* any other requests.exceptions.RequestException
GetException(text) ==
    /\ statuses' = Append(statuses, "exception")
    /\ GetNextAttempt(text,
                      IF SleepsAfterFailure(attempt)
                      THEN <<RetryDelay(attempt)>> ELSE <<>>)

\* status 200 with a body resp.json() cannot decode.  requests from 2.27 on
\* raises requests.exceptions.JSONDecodeError, a RequestException: the
\* attempt counts as failed and is retried.
GetUndecodableRetried ==
    /\ statuses' = Append(statuses, "ok_undecodable")
    /\ GetNextAttempt(DecodeErrorText,
                      IF SleepsAfterFailure(attempt)
                      THEN <<RetryDelay(attempt)>> ELSE <<>>)

\* The same with an older requests: resp.json() raises a plain ValueError,
\* which leaves cin7_get and fetch_kickplate_orders and is caught by
\* api_jobs, which answers 500.
GetUndecodableRaised ==
    /\ GetSent
    /\ statuses' = Append(statuses, "ok_undecodable")
    /\ pc' = "done"
    /\ raised' = "ValueError"
    /\ response' = [status |-> 500, body |-> [error |-> DecodeErrorText]]
    /\ UNCHANGED <<attempt, last_error, sleeps>>
    /\ UNCHANGED <<handler, fetchVars, putVars, auxVars>>

\* cin7_get returned None: if response is None: break
PageFailed ==
    /\ pc = "got"
    /\ returned = "None"
    /\ FetchEnds
    /\ UNCHANGED <<handler, dataset, page, all_orders, pageLens, putVars, auxVars>>

\* cin7_get returned the decoded body: the rest of the loop body runs, and
\* either the next page is asked for or the loop ends.
PageReturned(body) ==
    /\ pc = "got"
    /\ returned = "json"
    /\ LET norm == NormalizeOrders(body) IN
       IF body.t = "null" \/ ~norm.ok
       THEN \* response is None, or neither a list nor a dict: break
            /\ FetchEnds
            /\ UNCHANGED <<page, all_orders, pageLens>>
       ELSE /\ pageLens' = Append(pageLens, norm.orders.n)
            /\ IF norm.orders.n = 0
               THEN \* if not orders: break
                    /\ FetchEnds
                    /\ UNCHANGED <<page, all_orders>>
               ELSE /\ all_orders' = Extend(all_orders, norm.orders)
                    /\ IF ShortPage(norm.orders.n)
                       THEN FetchEnds /\ UNCHANGED page
                       ELSE /\ page' = page + 1
                            /\ IF WithinCeiling(page + 1)
                               THEN /\ GetCalled(page + 1)
                                    /\ UNCHANGED <<response, raised>>
                               ELSE FetchEnds
    /\ UNCHANGED <<handler, dataset, putVars, auxVars>>

(***************************************************************************)
(* The route has answered; the server is ready for the next request.       *)
(***************************************************************************)
Answered ==
    /\ pc = "done"
    /\ pc' = "idle"
    /\ handler' = "none"
    /\ order_id' = 0
    /\ new_stage' = ""
    /\ payload' = JNull
    /\ attempt' = 0
    /\ last_error' = None
    /\ sleeps' = <<>>
    /\ requests' = 0
    /\ wire' = <<>>
    /\ resp_body' = NoBody
    /\ statuses' = <<>>
    /\ returned' = "none"
    /\ result' = NoResult
    /\ raised' = "none"
    /\ response' = NoResponse
    /\ dataset' = "none"
    /\ page' = 0
    /\ all_orders' = <<>>
    /\ calls' = <<>>
    /\ pageLens' = <<>>
    /\ UNCHANGED auxVars

Next ==
    \/ \E oid \in 1..MaxOrderId, data \in RequestBodies :
          api_update_stage(oid, data)
    \/ \E code \in PutOkStatuses, body \in PutBodies : PutOk(code, body)
    \/ PutRateLimited
    \/ \E code \in ErrorStatuses, text \in ErrorTexts : PutHttpError(code, text)
    \/ \E text \in ExceptionTexts : PutException(text)
    \/ \E ds \in Datasets : api_jobs(ds)
    \/ GetOk
    \/ GetRateLimited
    \/ \E code \in GetErrorStatuses, text \in GetErrorTexts :
          GetHttpError(code, text)
    \/ GetTimeout
    \/ GetConnectionError
    \/ \E text \in GetExceptionTexts : GetException(text)
    \/ GetUndecodableRetried
    \/ GetUndecodableRaised
    \/ PageFailed
    \/ \E body \in GetBodies(dataset, page) : PageReturned(body)
    \/ Answered

Spec == Init /\ [][Next]_vars

(***************************************************************************)
(* Properties.                                                             *)
(***************************************************************************)
FourStages ==
    { "Kickplate - New", "Kickplate - Processing",
      "Kickplate - Job Complete", "Kickplate - To Collect" }

\* update_order_stage has been entered (the request body named a stage).
StageUpdateEntered == handler = "api_update_stage" /\ response.status # 400

\* cin7_put has returned to update_order_stage or raised.
PutEnded == handler = "api_update_stage" /\ pc = "done" /\ requests > 0

\* The latest PUT response reports a failure of the first item:
\* a list whose first element is an object with success = false.
LogicalFailure(body) ==
    /\ body.t = "list"
    /\ Len(body.v) >= 1
    /\ body.v[1].t = "dict"
    /\ "success" \in DOMAIN body.v[1].v
    /\ body.v[1].v["success"].t = "bool"
    /\ body.v[1].v["success"].v = FALSE

\* The latest PUT response is a non-empty list whose first element is not
\* an object.
FirstItemNotObject(body) ==
    body.t = "list" /\ Len(body.v) >= 1 /\ body.v[1].t # "dict"

\* C1: update_order_stage with a stage that is not one of the four kickplate
\* stages returns {success: false, error: "Invalid stage: <stage>"} at once
\* and no HTTP request is issued (cin7_put is never entered).
C1_InvalidStageNoRequest ==
    (StageUpdateEntered /\ new_stage \notin FourStages) =>
        /\ pc = "done"
        /\ result = [success |-> FALSE, error |-> "Invalid stage: " \o new_stage]
        /\ response.status = 500
        /\ response.body.error = "Invalid stage: " \o new_stage
        /\ requests = 0
        /\ wire = <<>>
        /\ payload = JNull

C1_Witness ==
    /\ StageUpdateEntered
    /\ pc = "done"
    /\ new_stage = "Kickplate - Archived"
    /\ order_id = MaxOrderId
    /\ result.success = FALSE
    /\ requests = 0

C3_BoundedAttemptsAndReturn ==
    /\ requests <= 3
    /\ pc \in {"get", "put"} => requests < 3
    /\ \A i \in 1..Len(statuses) :
          statuses[i] \in {"ok", "ok_undecodable"} =>
              i = Len(statuses) /\ pc \notin {"get", "put"}
    /\ raised = "none"

\* C4: when cin7_put fails after its last attempt, the error it returns (and
\* api_update_stage sends) is a non-empty message, that of the last failed
\* attempt, also when the last answer was a 429 (the message of a failed
\* status names the status: "HTTP <status>: ...").
C4_ExhaustedErrorIsLastMessage ==
    (PutEnded /\ Len(statuses) = 3 /\ statuses[3] # "ok") =>
        /\ result.success = FALSE
        /\ result.error # None
        /\ result.error # ""
        /\ response.body.error = result.error
        /\ statuses[3] = "429" => StartsWith(result.error, "HTTP 429")

\* C5: a 2xx PUT response whose body is a list with a first element that has
\* success = false makes cin7_put return {success: false, error: <the
\* embedded error texts joined by "; ">} at once, whatever the attempt: the
\* call is over and no further request is issued.
C5_LogicalFailureNotRetried ==
    (handler = "api_update_stage" /\ Len(statuses) > 0
        /\ statuses[Len(statuses)] = "ok" /\ LogicalFailure(resp_body)) =>
        /\ pc = "done"
        /\ raised = "none"
        /\ result.success = FALSE
        /\ requests = Len(statuses)
        /\ Len(wire) = requests
        /\ LET item == resp_body.v[1].v
               texts == IF "errors" \in DOMAIN item /\ item["errors"].t = "list"
                        THEN item["errors"].v ELSE <<>>
           IN
           result.error =
               CASE Len(texts) = 0 -> "Cin7 reported failure"
                 [] Len(texts) = 1 -> texts[1].v
                 [] OTHER -> texts[1].v \o "; " \o texts[2].v
        /\ response.status = 500
        /\ response.body.error = result.error

C5_Witness ==
    /\ PutEnded
    /\ statuses = <<"ok">>
    /\ LogicalFailure(resp_body)
    /\ result = [success |-> FALSE, error |-> "Invalid stage; Order locked"]

\* C6: a 2xx PUT response whose body is absent or malformed (not JSON, an
\* object, an empty list, a list whose first element is not an object, or a
\* first element without a false success marker) makes cin7_put return
\* {success: true}; no exception is raised.
C6_MalformedBodyIsSuccess ==
    (handler = "api_update_stage" /\ Len(statuses) > 0
        /\ statuses[Len(statuses)] = "ok" /\ ~LogicalFailure(resp_body)) =>
        /\ pc = "done"
        /\ raised = "none"
        /\ result = [success |-> TRUE]

\* C7: every PUT request of a stage update carries a one-element array whose
\* element is an object with exactly the keys id and stage, holding the
\* requested order id and stage; every retry carries the same payload.
C7_PayloadOnTheWire ==
    handler = "api_update_stage" =>
        /\ Len(wire) = requests
        /\ \A i \in 1..Len(wire) :
              /\ wire[i].t = "list"
              /\ Len(wire[i].v) = 1
              /\ wire[i].v[1].t = "dict"
              /\ DOMAIN wire[i].v[1].v = {"id", "stage"}
              /\ wire[i].v[1].v["id"] = [t |-> "num", v |-> order_id]
              /\ wire[i].v[1].v["stage"] = [t |-> "str", v |-> new_stage]
              /\ wire[i] = wire[1]

C7_Witness ==
    /\ PutEnded
    /\ Len(wire) = 3
    /\ order_id = MaxOrderId
    /\ new_stage = "Kickplate - To Collect"
    /\ wire[3].v[1].v["stage"].v = "Kickplate - To Collect"

\* The runs of the first n pages when each of them was full.
FullPages(n) == [i \in 1..n |-> Run(FirstRef(i), PageRows)]

\* The orders fetch_kickplate_orders returns for the first n full pages of a
\* listing: in the mixed listing the 1st, 3rd, 4th and 8th record of every
\* page, in this order; none in the foreign listing.
KeptOfFullPages(ds, n) ==
    IF ds = "foreign" THEN <<>>
    ELSE [j \in 1..(4 * n) |->
            LET first == FirstRef(((j - 1) \div 4) + 1)
                slot == (j - 1) % 4
            IN CASE slot = 0 ->
                      [id |-> [t |-> "num", v |-> first],
                       stage |-> "Kickplate - New"]
                 [] slot = 1 ->
                      [id |-> [t |-> "num", v |-> first + 2],
                       stage |-> "Kickplate - Processing"]
                 [] slot = 2 ->
                      [id |-> [t |-> "num", v |-> first + 3],
                       stage |-> "Kickplate - Archived"]
                 [] OTHER ->
                      [id |-> [t |-> "num", v |-> first + 7],
                       stage |-> "Kickplate - To Collect"]]

\* The last n elements of a sequence.
LastN(seq, n) == SubSeq(seq, Len(seq) - n + 1, Len(seq))

\* api_jobs has answered with the board.
FetchDone == handler = "api_jobs" /\ pc = "done" /\ raised = "none"

\* C8: once a page has returned fewer than 250 records (zero included) the
\* fetch cycle is over: no later page is requested although the remote
\* system would answer it, and the records of the short page are part of
\* what was collected and of the result.
C8_ShortPageEndsCycle ==
    handler = "api_jobs" =>
        \A i \in 1..Len(pageLens) :
            pageLens[i] < 250 =>
                /\ i = Len(pageLens)
                /\ pc = "done"
                /\ calls = [j \in 1..i |-> j]
                /\ pageLens[i] > 0 =>
                      /\ Len(all_orders) = i
                      /\ all_orders[i].n = pageLens[i]
                      /\ LET kept == ProcessOrders(dataset, RunRefs(all_orders[i]))
                         IN /\ Len(kept) <= Len(Processed)
                            /\ LastN(Processed, Len(kept)) = kept
                /\ pageLens[i] = 0 => all_orders = FullPages(i - 1)

C8_Witness ==
    /\ FetchDone
    /\ dataset = "mixed"
    /\ pageLens = <<250, 249>>
    /\ calls = <<1, 2>>
    /\ all_orders = <<Run(1, 250), Run(251, 249)>>
    /\ Len(Processed) = 8

\* C9: when the fetch of page k fails (cin7_get returns None after its last
\* attempt) after pages 1..k-1 were retrieved, the cycle stops there and
\* the result is made of the records of pages 1..k-1 in page order; it is
\* empty only if k = 1 or those pages hold no record that is kept.
C9_PartialResultsKept ==
    (FetchDone /\ returned = "None") =>
        LET k == Len(calls) IN
        /\ calls = [j \in 1..k |-> j]
        /\ page = k
        /\ pageLens = [j \in 1..(k - 1) |-> 250]
        /\ all_orders = FullPages(k - 1)
        /\ response.status = 200
        /\ Processed = KeptOfFullPages(dataset, k - 1)
        /\ Processed = <<>> => (k = 1 \/ dataset = "foreign")

C9_Witness ==
    /\ FetchDone
    /\ returned = "None"
    /\ dataset = "mixed"
    /\ calls = <<1, 2>>
    /\ Len(Processed) = 4
    /\ Processed[4].stage = "Kickplate - To Collect"

\* What a fetch cycle has done so far: it grows with every step.
CycleProgress ==
    5 * Len(calls) + requests + (IF pc = "got" THEN 1 ELSE 0)

C10_CeilingHolds ==
    handler = "api_jobs" =>
        /\ Len(calls) <= 100
        /\ \A i \in 1..Len(calls) : calls[i] = i /\ calls[i] <= 100
        /\ requests <= 3
        /\ pc = "get" => (requests < 3 /\ page = Len(calls))
        /\ CycleProgress <= 5 * 100 + 4
        /\ (Len(pageLens) = 100 /\ pageLens[100] = 250) =>
              /\ pc = "done"
              /\ page = 101
              /\ Len(calls) = 100
              /\ all_orders = FullPages(100)
              /\ response.status = 200

C10_EveryStepAdvances ==
    (handler = "api_jobs" /\ pc \in {"get", "got"}) =>
        (pc' = "done" \/ CycleProgress' > CycleProgress)

\* C10: a fetch cycle never requests a page above 100 and terminates: every
\* step of a cycle advances it and the advance is bounded; when every page is
\* full the cycle ends after page 100 with the 100 pages collected.  A call
\* issues at most 3 requests and a cycle at most 100 calls, hence at most
\* 300 HTTP requests.
C10_PageCeiling == []C10_CeilingHolds /\ [][C10_EveryStepAdvances]_vars

C10_Witness ==
    /\ FetchDone
    /\ page = 101
    /\ calls[100] = 100
    /\ all_orders = FullPages(100)
    /\ Len(Flatten(all_orders)) = 25000

\* The records a page response stands for, by its shape: a bare list of
\* records, an object holding the list under data or Data, or an object
\* that is one record itself.
ShapeRecords(body) ==
    IF body.t = "records" THEN body.v
    ELSE IF body.t = "dict" /\ "data" \in DOMAIN body.v
            /\ body.v["data"].t = "records"
    THEN body.v["data"].v
    ELSE IF body.t = "dict" /\ "Data" \in DOMAIN body.v
            /\ body.v["Data"].t = "records"
    THEN body.v["Data"].v
    ELSE IF body.t = "dict" /\ "Id" \in DOMAIN body.v
    THEN Run(body.ref, 1)
    ELSE Run(1, 0)

C11_PageMerged ==
    \A body \in GetBodies(dataset, page) :
        (pc = "got" /\ ShapeRecords(body).n > 0 /\ PageReturned(body)) =>
            /\ pageLens' = Append(pageLens, ShapeRecords(body).n)
            /\ all_orders' = Append(all_orders, ShapeRecords(body))

\* C11: a page response of any of the three shapes (a list of records, an
\* object with the list under data or Data, a single object that is one
\* record) is turned into the sequence of its records, which is merged into
\* the records collected; a single-record response contributes that record.
C11_ThreeShapesNormalized == [][C11_PageMerged]_vars

(***************************************************************************)
(* The browser client: loadJobs, updateStage, revertCard, the Sortable     *)
(* handlers and the refresh timer of HTML_TEMPLATE.  A card is a DOM node: *)
(* id is its data-id, node tells the rendering that created it.  The      *)
(* lists are numbered as KICKPLATE_STAGES (and STAGE_TO_LIST) orders them. *)
(***************************************************************************)
\* The most renderings, drags and unanswered loadJobs calls of a session.
MaxRenders == 2
MaxDrags == 2
MaxLoads == 2

Columns == 1..Len(KICKPLATE_STAGES)

\* The listing of the remote system while the session lasts.
ClientListing == "workshop"

\* What api_jobs answers when fetch_kickplate_orders collected the records
\* refs before its loop ended.
JobsAnswer(refs) ==
    LET orders == ProcessOrders(ClientListing, refs)
    IN [status |-> 200,
        body |-> [jobs |-> Grouped(orders), totalCount |-> Len(orders)]]

\* The answers of GET /api/jobs: the whole listing; what was collected when
\* cin7_get gave up on page 1 (pageFailed); the 500 of an exception.
RefreshOutcomes ==
    { [pageFailed |-> FALSE, resp |-> JobsAnswer(<<1, 2, 3>>)],
      [pageFailed |-> TRUE, resp |-> JobsAnswer(<<>>)],
      [pageFailed |-> FALSE,
       resp |-> [status |-> 500, body |-> [error |-> DecodeErrorText]]] }

\* The fetch of updateStage was rejected: no answer at all.
NetworkError == [status |-> 0, body |-> [unreachable |-> TRUE]]

\* The answers of POST /api/jobs/<id>/stage.
TransitionOutcomes(orderId, newStage) ==
    { StageResponse(orderId, newStage, [success |-> TRUE]),
      StageResponse(orderId, newStage,
                    [success |-> FALSE, error |-> "Cin7 reported failure"]),
      UnhandledResponse("AttributeError"),
      NetworkError }

\* createCardHTML(job), as the node of rendering gen
createCardHTML(job, gen) == [id |-> job.id.v, node |-> gen]

\* The lists after loadJobs has filled them from data.jobs.
RenderJobs(jobs, gen) ==
    [c \in Columns |->
        [j \in 1..Len(jobs[c]) |-> createCardHTML(jobs[c][j], gen)]]

\* cardEl.parentNode.removeChild(cardEl), if it has a parent
RemoveCard(b, cardEl) ==
    [c \in DOMAIN b |-> SelectSeq(b[c], LAMBDA x : x # cardEl)]

\* list.insertBefore(cardEl, list.children[index] || null)
InsertBefore(list, cardEl, index) ==
    IF index < Len(list)
    THEN SubSeq(list, 1, index) \o <<cardEl>> \o SubSeq(list, index + 1, Len(list))
    ELSE Append(list, cardEl)

\* revertCard(cardEl, fromList, oldIndex) on the lists b
revertCard(b, cardEl, fromList, oldIndex) ==
    LET removed == RemoveCard(b, cardEl)
    IN [removed EXCEPT
          ![fromList] = InsertBefore(removed[fromList], cardEl, oldIndex)]

\* The page has loaded: DOMContentLoaded calls loadJobs on an empty board.
ClientInit ==
    /\ board = [c \in Columns |-> <<>>]
    /\ errorShown = FALSE
    /\ isDragging = FALSE
    /\ dragEl = NoDrag
    /\ updating = {}
    /\ transitions = {}
    /\ origin = <<>>
    /\ loads = 1
    /\ renders = 0
    /\ drags = 0

\* loadJobs(): the fetch of /api/jobs leaves.
loadJobs ==
    /\ loads < MaxLoads
    /\ loads' = loads + 1
    /\ UNCHANGED <<board, errorShown, isDragging, dragEl, updating,
                   transitions, origin, renders, drags>>

\* The Refresh button.
RefreshClicked == loadJobs /\ UNCHANGED <<serverVars, procVars, parseVars>>

\* The timer of startAutoRefresh fires.
AutoRefreshTick ==
    /\ ~isDragging
    /\ loadJobs
    /\ UNCHANGED <<serverVars, procVars, parseVars>>

\* The fetch of loadJobs is answered: the then branch fills the lists on
\* resp.ok, the catch branch shows the error banner.
LoadJobsAnswered(resp) ==
    /\ loads > 0
    /\ loads' = loads - 1
    /\ IF resp.status = 200
       THEN /\ renders < MaxRenders
            /\ errorShown' = FALSE
            /\ board' = RenderJobs(resp.body.jobs, renders + 1)
            /\ renders' = renders + 1
       ELSE /\ errorShown' = TRUE
            /\ UNCHANGED <<board, renders>>
    /\ UNCHANGED <<isDragging, dragEl, updating, transitions, origin, drags>>
    /\ UNCHANGED <<serverVars, procVars, parseVars>>

\* Sortable onStart: the card at index of list from is picked up.  A card
\* with class updating takes no pointer events.
DragStart(from, index) ==
    /\ ~isDragging
    /\ drags < MaxDrags
    /\ index < Len(board[from])
    /\ board[from][index + 1] \notin updating
    /\ isDragging' = TRUE
    /\ dragEl' = [card |-> board[from][index + 1], from |-> from,
                  oldIndex |-> index]
    /\ origin' = [c \in DOMAIN origin \cup {board[from][index + 1]} |->
                    IF c = board[from][index + 1] THEN board[from]
                    ELSE origin[c]]
    /\ drags' = drags + 1
    /\ UNCHANGED <<board, errorShown, updating, transitions, loads, renders>>
    /\ UNCHANGED <<serverVars, procVars, parseVars>>

\* updateStage(orderId, newStage, cardEl, fromList, oldIndex) up to its fetch
updateStage(orderId, newStage, cardEl, fromList, oldIndex) ==
    /\ updating' = updating \cup {cardEl}
    /\ transitions' = transitions \cup
          { [orderId |-> orderId, newStage |-> newStage, cardEl |-> cardEl,
             fromList |-> fromList, oldIndex |-> oldIndex] }

\* Sortable onEnd: the card was dropped at newIndex of list to.
DragEnd(to, newIndex) ==
    /\ isDragging
    /\ LET removed == RemoveCard(board, dragEl.card) IN
       /\ newIndex <= Len(removed[to])
       /\ board' = [removed EXCEPT
                      ![to] = InsertBefore(removed[to], dragEl.card, newIndex)]
    /\ isDragging' = FALSE
    /\ dragEl' = NoDrag
    /\ IF dragEl.from = to
       THEN UNCHANGED <<updating, transitions>>
       ELSE updateStage(dragEl.card.id, KICKPLATE_STAGES[to], dragEl.card,
                        dragEl.from, dragEl.oldIndex)
    /\ UNCHANGED <<errorShown, origin, loads, renders, drags>>
    /\ UNCHANGED <<serverVars, procVars, parseVars>>

\* The fetch of an updateStage call is answered (or rejected): on a JSON
\* answer with success the card stays, otherwise revertCard puts it back.
TransitionAnswered(t, resp) ==
    /\ t \in transitions
    /\ transitions' = transitions \ {t}
    /\ updating' = updating \ {t.cardEl}
    /\ IF "success" \in DOMAIN resp.body /\ resp.body.success
       THEN UNCHANGED board
       ELSE board' = revertCard(board, t.cardEl, t.fromList, t.oldIndex)
    /\ UNCHANGED <<errorShown, isDragging, dragEl, origin, loads, renders, drags>>
    /\ UNCHANGED <<serverVars, procVars, parseVars>>

ClientNext ==
    \/ RefreshClicked
    \/ AutoRefreshTick
    \/ \E o \in RefreshOutcomes : LoadJobsAnswered(o.resp)
    \/ \E from \in Columns, index \in 0..3 : DragStart(from, index)
    \/ \E to \in Columns, newIndex \in 0..3 : DragEnd(to, newIndex)
    \/ \E t \in transitions :
          \E resp \in TransitionOutcomes(t.orderId, t.newStage) :
             TransitionAnswered(t, resp)

\* A browser session on its own: the server is what answers it.
ClientStart == ServerIdle /\ ClientInit /\ ProcOff /\ ParseOff

ClientSpec == ClientStart /\ [][ClientNext]_vars

(***************************************************************************)
(* Properties of the browser client.                                       *)
(***************************************************************************)
C12_RefreshStep ==
    \A o \in RefreshOutcomes :
        (o.pageFailed /\ LoadJobsAnswered(o.resp)) =>
            /\ errorShown'
            /\ board' = board

\* C12: when a page fetch exhausted its retries during a board refresh, the
\* client shows the error indicator and keeps every card it displayed: the
\* answer of such a refresh never empties a board.
C12_FetchFailureKeepsBoard == [][C12_RefreshStep]_vars

\* The answer of a transition is a failure: anything but a JSON body with a
\* true success.
FailureAnswer(resp) == ~("success" \in DOMAIN resp.body /\ resp.body.success)

\* The card is at place index of list after, between the neighbours it had
\* at that place in list before.
SamePlace(cardEl, index, before, after) ==
    LET i == index + 1 IN
    /\ i <= Len(after)
    /\ after[i] = cardEl
    /\ i > 1 => after[i - 1] = before[i - 1]
    /\ IF i < Len(before)
       THEN i < Len(after) /\ after[i + 1] = before[i + 1]
       ELSE Len(after) = i

C13_FailureStep ==
    \A t \in transitions :
        \A resp \in TransitionOutcomes(t.orderId, t.newStage) :
            (FailureAnswer(resp) /\ TransitionAnswered(t, resp)) =>
                SamePlace(t.cardEl, t.oldIndex, origin[t.cardEl],
                          board'[t.fromList])

\* C13: when a transition is answered with a failure, the card is back in
\* the list it was dragged from, at the index it had before the drag and
\* between the same neighbours, whatever other drags, answers and
\* refreshes happened while the transition was in flight.
C13_FailureRestoresPlace == [][C13_FailureStep]_vars

\* C14: a client session has at most one stage transition in flight: no
\* updateStage fetch leaves before the previous one was answered.
C14_OneTransitionInFlight == Cardinality(transitions) <= 1

(***************************************************************************)
(* parse_date.  A datetime is a record of its fields; strptime is modelled *)
(* on the characters of the string: the format is cut into directives and  *)
(* literal characters, every directive reads the digits up to the next     *)
(* literal, and the whole string has to be used up.                        *)
(***************************************************************************)
PyNone == [t |-> "None"]
ValueError == [t |-> "ValueError"]

datetime(y, m, d, H, M, S, f) ==
    [t |-> "datetime", year |-> y, month |-> m, day |-> d,
     hour |-> H, minute |-> M, second |-> S, microsecond |-> f]

Digits == "0123456789"
IsDigit(c) == \E i \in 1..10 : SubSeq(Digits, i, i) = c
DigitVal(c) == (CHOOSE i \in 1..10 : SubSeq(Digits, i, i) = c) - 1

\* int(digits)
RECURSIVE ToInt(_)
ToInt(digits) ==
    IF digits = "" THEN 0
    ELSE 10 * ToInt(SubSeq(digits, 1, Len(digits) - 1))
         + DigitVal(SubSeq(digits, Len(digits), Len(digits)))

\* The end of the run of digits of s that starts at pos (pos - 1 if none).
RECURSIVE DigitsEnd(_, _)
DigitsEnd(s, pos) ==
    IF pos <= Len(s) /\ IsDigit(SubSeq(s, pos, pos))
    THEN DigitsEnd(s, pos + 1)
    ELSE pos - 1

\* s.rstrip("Z")
RECURSIVE RStripZ(_)
RStripZ(s) ==
    IF s # "" /\ SubSeq(s, Len(s), Len(s)) = "Z"
    THEN RStripZ(SubSeq(s, 1, Len(s) - 1))
    ELSE s

\* s.replace("+00:00", "")
RECURSIVE RemoveUtcOffset(_)
RemoveUtcOffset(s) ==
    IF Len(s) < 6 THEN s
    ELSE IF SubSeq(s, 1, 6) = "+00:00"
    THEN RemoveUtcOffset(SubSeq(s, 7, Len(s)))
    ELSE SubSeq(s, 1, 1) \o RemoveUtcOffset(SubSeq(s, 2, Len(s)))

\* A format cut into its directives ("%Y", ...) and literal characters.
RECURSIVE FormatTokens(_)
FormatTokens(fmt) ==
    IF fmt = "" THEN <<>>
    ELSE IF SubSeq(fmt, 1, 1) = "%"
    THEN <<SubSeq(fmt, 1, 2)>> \o FormatTokens(SubSeq(fmt, 3, Len(fmt)))
    ELSE <<SubSeq(fmt, 1, 1)>> \o FormatTokens(SubSeq(fmt, 2, Len(fmt)))

\* Whether the digits match the regular expression of the directive:
\* %Y four digits; %m 1..12, %d 1..31, %H 0..23, %M 0..59, %S 0..61 in one
\* or two digits; %f one to six digits.
DirectiveMatches(dir, digits) ==
    LET n == Len(digits)
        v == ToInt(digits)
    IN CASE dir = "%Y" -> n = 4
         [] dir = "%m" -> n \in 1..2 /\ v \in 1..12
         [] dir = "%d" -> n \in 1..2 /\ v \in 1..31
         [] dir = "%H" -> n \in 1..2 /\ v \in 0..23
         [] dir = "%M" -> n \in 1..2 /\ v \in 0..59
         [] dir = "%S" -> n \in 1..2 /\ v \in 0..61
         [] dir = "%f" -> n \in 1..6
         [] OTHER -> FALSE

\* 10 ** n
RECURSIVE Pow10(_)
Pow10(n) == IF n = 0 THEN 1 ELSE 10 * Pow10(n - 1)

\* The value a directive gives its field: %f is padded to microseconds.
DirectiveValue(dir, digits) ==
    IF dir = "%f" THEN ToInt(digits) * Pow10(6 - Len(digits))
    ELSE ToInt(digits)

\* The fields the tokens from the k-th on read from s at pos, or ValueError
\* when the string does not match the format.
RECURSIVE MatchTokens(_, _, _, _, _)
MatchTokens(s, pos, tokens, k, fields) ==
    IF k > Len(tokens)
    THEN IF pos > Len(s) THEN fields ELSE ValueError  \* unconverted data
    ELSE IF Len(tokens[k]) = 2
    THEN LET last == DigitsEnd(s, pos)
             digits == SubSeq(s, pos, last)
         IN IF DirectiveMatches(tokens[k], digits)
            THEN MatchTokens(s, last + 1, tokens, k + 1,
                             [fields EXCEPT ![tokens[k]] =
                                 DirectiveValue(tokens[k], digits)])
            ELSE ValueError
    ELSE IF pos <= Len(s) /\ SubSeq(s, pos, pos) = tokens[k]
    THEN MatchTokens(s, pos + 1, tokens, k + 1, fields)
    ELSE ValueError

IsLeap(y) == (y % 4 = 0 /\ y % 100 # 0) \/ y % 400 = 0

DaysInMonth(y, m) ==
    CASE m \in {1, 3, 5, 7, 8, 10, 12} -> 31
      [] m \in {4, 6, 9, 11} -> 30
      [] OTHER -> IF IsLeap(y) THEN 29 ELSE 28

\* datetime.strptime(s, fmt): the datetime of the fields read, which the
\* datetime constructor refuses when they are no date or time.
strptime(s, fmt) ==
    LET defaults == [x \in {"%Y", "%m", "%d", "%H", "%M", "%S", "%f"} |->
                        CASE x = "%Y" -> 1900
                          [] x \in {"%m", "%d"} -> 1
                          [] OTHER -> 0]
        got == MatchTokens(s, 1, FormatTokens(fmt), 1, defaults)
    IN IF got = ValueError THEN ValueError
       ELSE IF got["%Y"] < 1 \/ got["%d"] > DaysInMonth(got["%Y"], got["%m"])
               \/ got["%S"] > 59
       THEN ValueError
       ELSE datetime(got["%Y"], got["%m"], got["%d"],
                     got["%H"], got["%M"], got["%S"], got["%f"])

\* A variant of date_formats: the two slash formats change places.
date_formats_month_first ==
    << "%Y-%m-%dT%H:%M:%S", "%Y-%m-%dT%H:%M:%S.%f",
       "%Y-%m-%dT%H:%M:%SZ", "%Y-%m-%dT%H:%M:%S.%fZ",
       "%Y-%m-%d", "%m/%d/%Y", "%d/%m/%Y" >>

date_formats ==
    << "%Y-%m-%dT%H:%M:%S", "%Y-%m-%dT%H:%M:%S.%f",
       "%Y-%m-%dT%H:%M:%SZ", "%Y-%m-%dT%H:%M:%S.%fZ",
       "%Y-%m-%d", "%d/%m/%Y", "%m/%d/%Y" >>

\* The loop over date_formats from the k-th on: the first format that
\* parses wins.
RECURSIVE FirstParse(_, _)
FirstParse(cleaned, k) ==
    IF k > Len(date_formats) THEN PyNone
    ELSE LET dt == strptime(cleaned, RStripZ(date_formats[k]))
         IN IF dt # ValueError THEN dt ELSE FirstParse(cleaned, k + 1)

\* parse_date(date_value), for a decoded JSON value
parse_date(value) ==
    IF value.t # "str" THEN PyNone
    ELSE FirstParse(RStripZ(RemoveUtcOffset(value.v)), 1)

(***************************************************************************)
(* parse_date on its own: the date strings it is given and what it returns.*)
(***************************************************************************)
\* The dates of the year written out, and the time of day of a timestamp.
WrittenYear == 2024
WrittenTime == "09:30:00"

Dates ==
    { dt \in [y : {WrittenYear}, m : 1..12, d : 1..31] :
        dt.d <= DaysInMonth(dt.y, dt.m) }

\* n in at least two digits
Pad2(n) == IF n < 10 THEN "0" \o ToString(n) ELSE ToString(n)

\* The six ways the remote system writes a date: a timestamp with seconds,
\* with a fraction of a second, with the UTC marker, the bare date, and the
\* day-first and month-first slash dates.
WriteDate(dt, fmt) ==
    LET iso == ToString(dt.y) \o "-" \o Pad2(dt.m) \o "-" \o Pad2(dt.d)
    IN CASE fmt = 1 -> iso \o "T" \o WrittenTime
         [] fmt = 2 -> iso \o "T" \o WrittenTime \o ".250"
         [] fmt = 3 -> iso \o "T" \o WrittenTime \o "Z"
         [] fmt = 4 -> iso
         [] fmt = 5 -> Pad2(dt.d) \o "/" \o Pad2(dt.m) \o "/" \o ToString(dt.y)
         [] fmt = 6 -> Pad2(dt.m) \o "/" \o Pad2(dt.d) \o "/" \o ToString(dt.y)

\* Values of a date field that are no written date.
OtherDateValues ==
    { JNull, JNum(20240304), JStr(""), JStr("not a date"),
      JStr("2024-02-30"), JStr("2024-03-04T09:30:00+00:00"),
      JStr("2024-03-04T09:30:00.250Z"), JStr("2024-03-04T09:30:00+13:00"),
      JStr("4/3/2024"), JStr("2024/03/04") }

ParseStart ==
    /\ ServerIdle /\ ClientOff /\ ProcOff
    /\ parsed = NotCalled
    /\ \/ \E dt \in Dates, fmt \in 1..6 :
             /\ written = [d |-> dt, fmt |-> fmt]
             /\ date_value = JStr(WriteDate(dt, fmt))
       \/ /\ written = NotWritten
          /\ date_value \in OtherDateValues

\* parse_date(date_value) is called and returns.
ParseDateCalled ==
    /\ parsed = NotCalled
    /\ parsed' = parse_date(date_value)
    /\ UNCHANGED <<written, date_value, serverVars, clientVars, procVars>>

ParseNext == ParseDateCalled

ParseSpec == ParseStart /\ [][ParseNext]_vars

\* parse_date returned a datetime of the date dt.
ParsedAs(dt) ==
    /\ parsed.t = "datetime"
    /\ parsed.year = dt.y
    /\ parsed.month = dt.m
    /\ parsed.day = dt.d

\* C20 as stated: parse_date of a date written in any of the six accepted
\* formats returns that date (same year, month and day).
C20_RoundTripSixFormats ==
    (parsed # NotCalled /\ written.fmt \in 1..6) => ParsedAs(written.d)

\* C20 amended: parse_date returns the date written for the timestamp
\* formats, the bare date and the day-first slash date; a month-first
\* slash date gives the date written only when its day is above 12 (or
\* equals its month), otherwise it is read day-first: day and month change
\* places.
C20_RoundTripDayFirst ==
    (parsed # NotCalled /\ written.fmt \in 1..6) =>
        IF written.fmt = 6 /\ written.d.d <= 12
        THEN ParsedAs([y |-> written.d.y, m |-> written.d.d, d |-> written.d.m])
        ELSE ParsedAs(written.d)

C20_Witness ==
    /\ written = [d |-> [y |-> WrittenYear, m |-> 2, d |-> 29], fmt |-> 6]
    /\ date_value = JStr("02/29/2024")
    /\ ParsedAs([y |-> 2024, m |-> 2, d |-> 29])

(***************************************************************************)
(* fetch_kickplate_orders: what the processing loop makes of one order.    *)
(***************************************************************************)
DUE_SOON_DAYS == 7

\* date.toordinal(): the days from 1 January of year 1
RECURSIVE DaysBeforeMonth(_, _)
DaysBeforeMonth(y, m) ==
    IF m = 1 THEN 0 ELSE DaysBeforeMonth(y, m - 1) + DaysInMonth(y, m - 1)

ToOrdinal(date) ==
    LET before == date.y - 1
    IN before * 365 + (before \div 4) - (before \div 100) + (before \div 400)
       + DaysBeforeMonth(date.y, date.m) + date.d

\* etd.date()
DateOf(dt) == [y |-> dt.year, m |-> dt.month, d |-> dt.day]

\* (est_date - today).days
DaysUntil(est_date, day) == ToOrdinal(est_date) - ToOrdinal(day)

\* A variant of Classify: an order due in DUE_SOON_DAYS days is on track.
ClassifyStrict(etd, day) ==
    IF etd = PyNone
    THEN [isOverdue |-> FALSE, isDueSoon |-> FALSE, isOnTrack |-> FALSE,
          daysOverdue |-> 0]
    ELSE LET days_until == DaysUntil(DateOf(etd), day) IN
         IF days_until < 0
         THEN [isOverdue |-> TRUE, isDueSoon |-> FALSE, isOnTrack |-> FALSE,
               daysOverdue |-> -days_until]
         ELSE IF days_until < DUE_SOON_DAYS
         THEN [isOverdue |-> FALSE, isDueSoon |-> TRUE, isOnTrack |-> FALSE,
               daysOverdue |-> 0]
         ELSE [isOverdue |-> FALSE, isDueSoon |-> FALSE, isOnTrack |-> TRUE,
               daysOverdue |-> 0]

\* Overdue / due soon (lines 284-298): the three flags and days_overdue
Classify(etd, day) ==
    IF etd = PyNone
    THEN [isOverdue |-> FALSE, isDueSoon |-> FALSE, isOnTrack |-> FALSE,
          daysOverdue |-> 0]
    ELSE LET days_until == DaysUntil(DateOf(etd), day) IN
         IF days_until < 0
         THEN [isOverdue |-> TRUE, isDueSoon |-> FALSE, isOnTrack |-> FALSE,
               daysOverdue |-> IF days_until < 0 THEN -days_until
                               ELSE days_until]     \* abs(days_until)
         ELSE IF days_until <= DUE_SOON_DAYS
         THEN [isOverdue |-> FALSE, isDueSoon |-> TRUE, isOnTrack |-> FALSE,
               daysOverdue |-> 0]
         ELSE [isOverdue |-> FALSE, isDueSoon |-> FALSE, isOnTrack |-> TRUE,
               daysOverdue |-> 0]

(***************************************************************************)
(* The KP quantity of an order (lines 273-281 and 312).  A Python float   *)
(* is counted in halves: every quantity of the model is a multiple of 0.5, *)
(* which binary floating point adds without rounding.                      *)
(***************************************************************************)
TypeError == [t |-> "TypeError"]

\* float(s) for a decimal text: an optional sign, digits, and an optional
\* fraction .0 or .5 (one of the two may be missing: "3." and ".5" are
\* numbers); any other text of the model raises ValueError.
FloatOfText(s) ==
    LET signed == s # "" /\ SubSeq(s, 1, 1) \in {"-", "+"}
        sign == IF s # "" /\ SubSeq(s, 1, 1) = "-" THEN -1 ELSE 1
        body == IF signed THEN SubSeq(s, 2, Len(s)) ELSE s
        e == DigitsEnd(body, 1)
        whole == ToInt(SubSeq(body, 1, e))
        rest == SubSeq(body, e + 1, Len(body))
    IN IF e >= 1 /\ rest \in {"", ".", ".0"} THEN JFloat(sign * 2 * whole)
       ELSE IF e >= 1 /\ rest = ".5" THEN JFloat(sign * (2 * whole + 1))
       ELSE IF e = 0 /\ rest = ".0" THEN JFloat(0)
       ELSE IF e = 0 /\ rest = ".5" THEN JFloat(sign)
       ELSE ValueError

\* float(qty): a float in halves, or the exception raised
float(qty) ==
    CASE qty.t = "num" -> JFloat(2 * qty.v)
      [] qty.t = "float" -> qty
      [] qty.t = "bool" -> JFloat(IF qty.v THEN 2 ELSE 0)
      [] qty.t = "str" -> FloatOfText(qty.v)
      [] OTHER -> TypeError

\* item.get("Qty") or item.get("qty") or item.get("UomQtyOrdered")
\*     or item.get("uomQtyOrdered") or 0
ItemQty(item) ==
    PyOr(PyOr(PyOr(PyOr(DictGet(item, "Qty", JNull),
                        DictGet(item, "qty", JNull)),
                   DictGet(item, "UomQtyOrdered", JNull)),
              DictGet(item, "uomQtyOrdered", JNull)),
         JNum(0))

\* What one line item adds to qty_total, in halves: float(qty), or nothing
\* when float raises TypeError or ValueError.
ItemAdds(item) ==
    LET f == float(ItemQty(item))
    IN IF f.t = "float" THEN f.v ELSE 0

\* line_items = gf("LineItems") or [], and [] in its place if it is no list
LineItemsOf(order) ==
    LET line_items == PyOr(gf(order, "LineItems"), JList(<<>>))
    IN IF line_items.t = "list" THEN line_items.v ELSE <<>>

\* qty_total after the loop over the line items, in halves
RECURSIVE QtySum(_)
QtySum(items) ==
    IF items = <<>> THEN 0
    ELSE QtySum(SubSeq(items, 1, Len(items) - 1)) + ItemAdds(items[Len(items)])

\* int(x) for a float x in halves: rounds toward zero
IntOf(halves) ==
    IF halves >= 0 THEN halves \div 2 ELSE -((-halves) \div 2)

\* "qtyTotal": int(qty_total)
QtyTotal(order) == IntOf(QtySum(LineItemsOf(order)))

MonthNames ==
    << "Jan", "Feb", "Mar", "Apr", "May", "Jun",
       "Jul", "Aug", "Sep", "Oct", "Nov", "Dec" >>

\* dt.strftime("%d %b %Y") if dt else ""
FormatDay(dt) ==
    IF dt = PyNone THEN ""
    ELSE Pad2(dt.day) \o " " \o MonthNames[dt.month] \o " " \o ToString(dt.year)

\* The order appended to processed, with its dates and its status: id and
\* stage as ProcessOrder has them.
NormalizedOrder(order, day) ==
    LET etd == parse_date(gf(order, "EstimatedDeliveryDate"))
        created == parse_date(gf(order, "CreatedDate"))
        status == Classify(etd, day)
    IN [id |-> ProcessOrder(order).id,
        stage |-> ProcessOrder(order).stage,
        createdDate |-> FormatDay(created),
        etd |-> FormatDay(etd),
        qtyTotal |-> QtyTotal(order),
        isOverdue |-> status.isOverdue,
        isDueSoon |-> status.isDueSoon,
        isOnTrack |-> status.isOnTrack,
        daysOverdue |-> status.daysOverdue]

\* The loop over all_orders (lines 256-318) for decoded orders.
ProcessingLoop(orders, day) ==
    LET kept == SelectSeq(orders, Kept)
    IN [i \in 1..Len(kept) |-> NormalizedOrder(kept[i], day)]

\* createCardHTML: the status class of a card
StatusClass(job) ==
    IF job.isOverdue THEN "overdue"
    ELSE IF job.isDueSoon THEN "due-soon"
    ELSE IF job.isOnTrack THEN "on-track"
    ELSE "no-date"

(***************************************************************************)
(* The processing loop on its own: batches of orders and the day it runs.  *)
(***************************************************************************)
\* The most orders of a batch, and how far today is from the due date.
MaxBatch == 2
MaxDaysApart == 10

\* The day the orders of a batch are due.
DueDate == [y |-> 2024, m |-> 3, d |-> 1]

Todays ==
    { dt \in [y : {DueDate.y}, m : {2, 3}, d : 1..31] :
        /\ dt.d <= DaysInMonth(dt.y, dt.m)
        /\ ToOrdinal(dt) - ToOrdinal(DueDate) \in -MaxDaysApart..MaxDaysApart }

\* The makes of order the remote system may return as the i-th of a batch:
\* its Id is i.  The first is a plain new order; the others differ from it
\* in the void flag, in the stage, or in the due date, under either
\* spelling of the keys or under both.
OrderMakes(i) ==
    LET due(fmt) == JStr(WriteDate(DueDate, fmt))
        new == JStr("Kickplate - New")
        plain == [Id |-> JNum(i), Stage |-> new, IsVoid |-> JBool(FALSE),
                  EstimatedDeliveryDate |-> due(4),
                  CreatedDate |-> JStr("2024-02-01T08:00:00Z")]
        unflagged == [Id |-> JNum(i), Stage |-> new,
                      EstimatedDeliveryDate |-> due(4)]
        unstaged == [Id |-> JNum(i), IsVoid |-> JBool(FALSE),
                     EstimatedDeliveryDate |-> due(4)]
        undated == [Id |-> JNum(i), Stage |-> new, IsVoid |-> JBool(FALSE)]
    IN { JObj(plain),
         \* the void flag
         JObj([plain EXCEPT !.IsVoid = JBool(TRUE)]),
         JObj([isVoid |-> JBool(TRUE)] @@ unflagged),
         JObj([isVoid |-> JBool(TRUE)] @@ plain),
         JObj([IsVoid |-> JBool(TRUE), isVoid |-> JBool(FALSE)] @@ unflagged),
         JObj(unflagged),
         \* the stage
         JObj([stage |-> JStr("Kickplate - Processing")] @@ unstaged),
         JObj([plain EXCEPT !.Stage = JStr("Kickplate - Job Complete")]),
         JObj([plain EXCEPT !.Stage = JStr("Kickplate - To Collect")]),
         JObj([plain EXCEPT !.Stage = JStr("Kickplate - Archived")]),
         JObj([plain EXCEPT !.Stage = JStr("Quote")]),
         JObj(unstaged),
         JObj([Stage |-> JStr(""), stage |-> new] @@ unstaged),
         JObj([Stage |-> JStr("Kickplate - Processing"), stage |-> new]
                 @@ unstaged),
         \* the due date
         JObj([plain EXCEPT !.EstimatedDeliveryDate = due(1)]),
         JObj([plain EXCEPT !.EstimatedDeliveryDate = due(2)]),
         JObj([plain EXCEPT !.EstimatedDeliveryDate = due(3)]),
         JObj([plain EXCEPT !.EstimatedDeliveryDate = due(5)]),
         JObj(undated),
         JObj([plain EXCEPT !.EstimatedDeliveryDate = JNull]),
         JObj([plain EXCEPT !.EstimatedDeliveryDate = JStr("not a date")]),
         JObj([plain EXCEPT !.EstimatedDeliveryDate = JNum(20240301)]),
         JObj([estimatedDeliveryDate |-> due(4)] @@ undated),
         JObj([EstimatedDeliveryDate |-> JStr(""),
               estimatedDeliveryDate |-> due(4)] @@ undated),
         JObj([EstimatedDeliveryDate |-> due(4),
               estimatedDeliveryDate |-> JStr("2024-12-24")] @@ undated) }

Batches ==
    UNION { { b \in [1..n -> UNION { OrderMakes(i) : i \in 1..n }] :
                \A i \in 1..n : b[i] \in OrderMakes(i) } : n \in 0..MaxBatch }

ProcStart ==
    /\ ServerIdle /\ ClientOff /\ ParseOff
    /\ batch \in Batches
    /\ today \in Todays
    /\ processed = NotRun

\* The loop over all_orders runs to its end.
OrdersProcessed ==
    /\ processed = NotRun
    /\ processed' = ProcessingLoop(batch, today)
    /\ UNCHANGED <<batch, today, serverVars, clientVars, parseVars>>

ProcNext == OrdersProcessed

ProcSpec == ProcStart /\ [][ProcNext]_vars

\* api_jobs: the JSON body for the orders fetch_kickplate_orders returned
BoardOf(orders) == [jobs |-> Grouped(orders), totalCount |-> Len(orders)]

(***************************************************************************)
(* Properties of the processing loop and of the board it feeds.            *)
(***************************************************************************)
\* The void flag of a raw record is true under one of its spellings.
VoidFlagTrue(order) ==
    \E key \in {"IsVoid", "isVoid"} :
        key \in DOMAIN order.v /\ order.v[key] = JBool(TRUE)

\* The value of a field as the resolution rule has it: that of the exact
\* name when the record has that key, else that of the name with a lower
\* first letter, else absent (null).
ResolveField(order, name) ==
    IF name \in DOMAIN order.v THEN order.v[name]
    ELSE IF LowerFirst(name) \in DOMAIN order.v THEN order.v[LowerFirst(name)]
    ELSE JNull

\* The positions of a batch whose record satisfies Test, in order.
Positions(orders, Test(_)) ==
    SelectSeq([i \in 1..Len(orders) |-> i], LAMBDA i : Test(orders[i]))

\* The ids of a list of processed orders, in order.
IdsOf(orders) == [j \in 1..Len(orders) |-> orders[j].id.v]

\* C15: no record whose void flag is true, under the key IsVoid or isVoid,
\* is in the processed list, in a stage group of the board response, or
\* counted in totalCount.
C15_VoidExcluded ==
    processed # NotRun =>
        LET body == BoardOf(processed) IN
        /\ \A i \in 1..Len(batch) :
              VoidFlagTrue(batch[i]) =>
                 /\ \A j \in 1..Len(processed) : processed[j].id # JNum(i)
                 /\ \A c \in 1..Len(body.jobs) :
                       \A j \in 1..Len(body.jobs[c]) :
                          body.jobs[c][j].id # JNum(i)
        /\ body.totalCount
              <= Len(Positions(batch, LAMBDA o : ~VoidFlagTrue(o)))

C15_Witness ==
    /\ processed # NotRun
    /\ Len(batch) = 2
    /\ "IsVoid" \notin DOMAIN batch[1].v
    /\ DictGet(batch[1], "isVoid", JNull) = JBool(TRUE)
    /\ DictGet(batch[1], "Stage", JNull) = JStr("Kickplate - New")
    /\ ~VoidFlagTrue(batch[2])
    /\ IdsOf(processed) = <<2>>
    /\ BoardOf(processed).totalCount = 1

\* The record a processed order was made from: its Id is its position.
SourceOf(o) == batch[o.id.v]

\* How many of the three status flags of a processed order are true.
FlagsTrue(o) ==
    Cardinality({ f \in {"isOverdue", "isDueSoon", "isOnTrack"} : o[f] })

\* C16: every processed order has exactly one of the statuses overdue,
\* due-soon, on-track and no-date (all three flags false), on the card too;
\* no-date holds exactly when the due date of its record is absent or
\* cannot be parsed.
C16_StatusPartition ==
    processed # NotRun =>
        \A j \in 1..Len(processed) :
            LET o == processed[j]
                due == ResolveField(SourceOf(o), "EstimatedDeliveryDate")
            IN /\ FlagsTrue(o) <= 1
               /\ StatusClass(o) = "overdue" <=> o.isOverdue
               /\ StatusClass(o) = "due-soon" <=> o.isDueSoon
               /\ StatusClass(o) = "on-track" <=> o.isOnTrack
               /\ StatusClass(o) = "no-date" <=> FlagsTrue(o) = 0
               /\ FlagsTrue(o) = 0 <=> parse_date(due) = PyNone

\* The due date of a record, as the resolution rule has it, is DueDate in
\* one of the formats that read back as written.
DueOnDueDate(order) ==
    ResolveField(order, "EstimatedDeliveryDate")
        \in { JStr(WriteDate(DueDate, fmt)) : fmt \in 1..5 }

\* today and dueDate - today of the examples: 3 days late, due today, due
\* in 7 days, due in 8 days (February 2024 has 29 days).
ExampleDays ==
    { <<[y |-> 2024, m |-> 3, d |-> 4], -3>>,
      <<[y |-> 2024, m |-> 3, d |-> 1], 0>>,
      <<[y |-> 2024, m |-> 2, d |-> 23], 7>>,
      <<[y |-> 2024, m |-> 2, d |-> 22], 8>> }

\* C17: with daysUntil = dueDate - today, daysUntil < 0 gives isOverdue and
\* daysOverdue = -daysUntil, 0 <= daysUntil <= 7 gives isDueSoon, and
\* daysUntil > 7 gives isOnTrack, each alone; daysOverdue is non-zero only
\* on an overdue order (-3 gives overdue/3, 0 and 7 due-soon, 8 on-track).
C17_Thresholds ==
    processed # NotRun =>
        LET daysUntil == ToOrdinal(DueDate) - ToOrdinal(today) IN
        /\ \A e \in ExampleDays : today = e[1] => daysUntil = e[2]
        /\ \A j \in 1..Len(processed) :
              LET o == processed[j] IN
              /\ o.daysOverdue # 0 => o.isOverdue
              /\ DueOnDueDate(SourceOf(o)) =>
                    /\ daysUntil < 0 =>
                          /\ o.isOverdue /\ ~o.isDueSoon /\ ~o.isOnTrack
                          /\ o.daysOverdue = -daysUntil
                    /\ (0 <= daysUntil /\ daysUntil <= 7) =>
                          /\ ~o.isOverdue /\ o.isDueSoon /\ ~o.isOnTrack
                          /\ o.daysOverdue = 0
                    /\ daysUntil > 7 =>
                          /\ ~o.isOverdue /\ ~o.isDueSoon /\ o.isOnTrack
                          /\ o.daysOverdue = 0

C17_Witness ==
    /\ processed # NotRun
    /\ today = [y |-> 2024, m |-> 2, d |-> 23]
    /\ Len(processed) = 2
    /\ DueOnDueDate(SourceOf(processed[1]))
    /\ processed[1].isDueSoon
    /\ processed[1].etd = "01 Mar 2024"
    /\ ~DueOnDueDate(SourceOf(processed[2]))
    /\ FlagsTrue(processed[2]) = 0

\* The stage of a raw record, as the resolution rule has it.
ResolvedStage(order) ==
    LET v == ResolveField(order, "Stage")
    IN IF v.t = "str" THEN v.v ELSE ""

\* C18: in the board response every order listed under a stage has that
\* stage, one of the four; the group of a stage holds, once each and in
\* fetch order, the records that are not void and have that stage; a
\* record with any other stage is in no group.
C18_GroupsByStage ==
    processed # NotRun =>
        LET jobs == BoardOf(processed).jobs IN
        /\ Len(jobs) = 4
        /\ \A c \in 1..Len(jobs) :
              /\ KICKPLATE_STAGES[c] \in FourStages
              /\ \A j \in 1..Len(jobs[c]) :
                    jobs[c][j].stage = KICKPLATE_STAGES[c]
              /\ IdsOf(jobs[c]) =
                    Positions(batch,
                              LAMBDA r : /\ ~VoidFlagTrue(r)
                                         /\ ResolvedStage(r) = KICKPLATE_STAGES[c])

\* The fields the processing loop resolves.
ResolvedNames == {"Id", "Stage", "EstimatedDeliveryDate", "CreatedDate"}

\* C19: field resolution gives the value under the exact name whenever the
\* record has that key, whatever the value; the name with a lower first
\* letter is used only when the exact key is absent; a field absent under
\* both spellings resolves to absent.
C19_ExactNameFirst ==
    processed # NotRun =>
        \A i \in 1..Len(batch) :
            \A name \in ResolvedNames :
                gf(batch[i], name) = ResolveField(batch[i], name)

(***************************************************************************)
(* The processing loop on orders with line items.                          *)
(***************************************************************************)
\* The most line items of an order whose items carry one key.
MaxItems == 2

\* The spellings of the quantity of a line item, in the order of line 277.
QtyKeys == << "Qty", "qty", "UomQtyOrdered", "uomQtyOrdered" >>

\* Values the remote system may give a quantity: whole, zero, negative and
\* fractional numbers, numbers as text, and values that are no number.
QtyValues ==
    { JNum(3), JNum(0), JNum(-2), JFloat(5), JFloat(-1), JStr("4"),
      JStr("1.5"), JStr("-.5"), JStr("abc"), JStr(""), JNull, JBool(TRUE),
      JList(<<>>), JObj([Qty |-> JNum(1)]) }

\* Values of a line item that carries several spellings at once.
SpellingValues == { JNum(3), JNum(0), JStr("abc"), JNull }

\* The line items with the keys of keys only, each with a value of values.
ItemsWith(keys, values) ==
    { JObj(f) : f \in [keys -> values] }

\* Lists of line items: up to MaxItems items that carry Qty alone, with
\* every value, and single items that carry any of the spellings.
LineItemLists ==
    LET plain == ItemsWith({"Qty"}, QtyValues)
        spelled == UNION { ItemsWith(keys, SpellingValues) :
                             keys \in (SUBSET { QtyKeys[k] : k \in 1..4 }) }
    IN UNION { [1..n -> plain] : n \in 0..MaxItems }
         \cup { <<item>> : item \in spelled }

\* One new order, with its line items under either spelling of the key, a
\* value that is no list in their place, or no line items at all.
QtyBatches ==
    LET order == [Id |-> JNum(1), Stage |-> JStr("Kickplate - New"),
                  IsVoid |-> JBool(FALSE),
                  EstimatedDeliveryDate |-> JStr(WriteDate(DueDate, 4))]
    IN { <<JObj([LineItems |-> JList(items)] @@ order)>> :
             items \in LineItemLists }
         \cup { <<JObj([lineItems |-> JList(items)] @@ order)>> :
                  items \in { <<>>, <<JObj([Qty |-> JNum(3)])>> } }
         \cup { <<JObj([LineItems |-> v] @@ order)>> :
                  v \in { JNull, JStr("3"), JObj([Qty |-> JNum(3)]) } }
         \cup { <<JObj(order)>> }

QtyStart ==
    /\ ServerIdle /\ ClientOff /\ ParseOff
    /\ batch \in QtyBatches
    /\ today = DueDate
    /\ processed = NotRun

QtySpec == QtyStart /\ [][ProcNext]_vars

\* The quantity of a line item as the rule has it: the value under the
\* first spelling that is present, whatever the value; absent if none is.
RECURSIVE FirstPresent(_, _)
FirstPresent(item, k) ==
    IF k > Len(QtyKeys) THEN JNull
    ELSE IF HasKey(item, QtyKeys[k]) THEN item.v[QtyKeys[k]]
    ELSE FirstPresent(item, k + 1)

\* What a line item is to contribute, in halves: its quantity as a number,
\* or zero when the quantity cannot be coerced.
Contribution(item) ==
    LET f == float(FirstPresent(item, 1))
    IN IF f.t = "float" THEN f.v ELSE 0

\* The line items of a raw record, under the resolved key.
ResolvedItems(order) ==
    LET v == ResolveField(order, "LineItems")
    IN IF v.t = "list" THEN v.v ELSE <<>>

RECURSIVE ContributionSum(_)
ContributionSum(items) ==
    IF items = <<>> THEN 0
    ELSE Contribution(Head(items)) + ContributionSum(Tail(items))

\* C21: the qtyTotal of every processed order is a non-negative integer,
\* the truncated sum of the quantities of its line items, whatever the
\* quantities are: numbers (negative and zero too) or values that are no
\* number.
C21_QtyTotalNonNegativeSum ==
    processed # NotRun =>
        \A j \in 1..Len(processed) :
            LET o == processed[j]
                items == ResolvedItems(SourceOf(o))
            IN /\ o.qtyTotal \in Nat
               /\ o.qtyTotal = IntOf(ContributionSum(items))

\* C24: the quantity used for a line item is the value of the first of
\* Qty, qty, UomQtyOrdered, uomQtyOrdered that is present, even when it is
\* zero; a later spelling counts only when every earlier key is absent,
\* and a value that cannot be coerced contributes zero.
C24_FirstPresentQuantity ==
    processed # NotRun =>
        \A i \in 1..Len(batch) :
            LET items == LineItemsOf(batch[i]) IN
            \A k \in 1..Len(items) :
                ItemAdds(items[k]) = Contribution(items[k])

(***************************************************************************)
(* Properties of the backoff of one call and of the order of the pages.    *)
(***************************************************************************)
\* Attempt k of the current call failed and the loop went on (or ran out):
\* a 429, another status, an exception, or a 200 whose body could not be
\* decoded and was taken for a failed request.
FailedAttempt(k) ==
    \/ statuses[k] \in {"429", "http_error", "exception"}
    \/ /\ statuses[k] = "ok_undecodable"
       /\ ~(k = Len(statuses) /\ raised = "ValueError")

\* The delays slept after the first n attempts, attempts numbered from 1:
\* 2 * k after a 429 on attempt k, k after another failure if k < 3.
RECURSIVE DelaysAfter(_)
DelaysAfter(n) ==
    IF n = 0 THEN <<>>
    ELSE DelaysAfter(n - 1) \o
         (IF statuses[n] = "429" THEN <<2 * n>>
          ELSE IF FailedAttempt(n) /\ n < 3 THEN <<n>>
          ELSE <<>>)

\* Every failure of the call so far was a 429, or none was.
SameKindOfFailure ==
    \/ \A k \in 1..Len(statuses) : FailedAttempt(k) => statuses[k] = "429"
    \/ \A k \in 1..Len(statuses) : statuses[k] # "429"

\* C22: with attempts numbered from 1 and a base delay of 1, a 429 on
\* attempt k is followed by a sleep of 2 * k and uses up attempt k; any
\* other failure on attempt k is followed by a sleep of k only if k < 3; the
\* delays of a call whose failures are all of one kind increase strictly.
C22_BackoffDelays ==
    /\ sleeps = DelaysAfter(Len(statuses))
    /\ attempt = Cardinality({ k \in 1..Len(statuses) : FailedAttempt(k) })
    /\ \A k \in 1..Len(statuses) : FailedAttempt(k) => k <= attempt
    /\ SameKindOfFailure =>
          \A i \in 1..(Len(sleeps) - 1) : sleeps[i] < sleeps[i + 1]

C22_Witness ==
    /\ handler = "api_update_stage"
    /\ statuses = <<"http_error", "429", "exception">>
    /\ sleeps = <<1, 4>>
    /\ attempt = 3
    /\ pc = "done"

\* C26: a call never sleeps after its last attempt: every sleep is followed
\* by another request of the same call, so a call whose 3 attempts all fail
\* has slept exactly twice, whatever the failures were.
C26_NoSleepAfterLastAttempt ==
    /\ Len(sleeps) <= requests
    /\ (requests > 0 /\ pc \notin {"get", "put"}) => Len(sleeps) < requests
    /\ attempt = API_MAX_RETRIES => Len(sleeps) = 2

\* The pages asked for so far are 1, 2, ... in order, every page but the
\* last asked for came back full, and at most the last is outstanding.
C23_PagesSoFar ==
    handler = "api_jobs" =>
        /\ Len(calls) >= 1
        /\ calls = [k \in 1..Len(calls) |-> k]
        /\ Len(pageLens) \in {Len(calls) - 1, Len(calls)}
        /\ \A k \in 1..(Len(calls) - 1) : pageLens[k] = 250
        /\ pc = "get" => (page = Len(calls) /\ Len(pageLens) = Len(calls) - 1)

\* A further page is asked for only when the call for the page before it
\* has returned a full page.
C23_NextPageStep ==
    (handler = "api_jobs" /\ Len(calls') > Len(calls)) =>
        /\ pc = "got" /\ returned = "json"
        /\ calls' = Append(calls, Len(calls) + 1)
        /\ pageLens' = Append(pageLens, 250)
        /\ page' = page + 1
        /\ pc' = "get" /\ requests' = 0

\* C23: the pages requested in a fetch cycle are exactly 1, 2, ..., n, with
\* no gap and no repeat, one at a time: page k + 1 is requested only after
\* the fetch of page k has returned a full page of 250 records, and never
\* while another page fetch of the cycle is outstanding.
C23_PagesSequential == []C23_PagesSoFar /\ [][C23_NextPageStep]_vars

C23_Witness ==
    /\ handler = "api_jobs"
    /\ pc = "get"
    /\ calls = <<1, 2, 3>>
    /\ pageLens = <<250, 250>>
    /\ page = 3
    /\ requests = 1

\* C27: totalCount of a board response is the number of fetched records
\* that are not void and whose stage starts with the kickplate prefix; it
\* is at least the number of orders listed under the four stages, and
\* equal to it exactly when none of those records has a stage outside the
\* four.
C27_TotalCount ==
    processed # NotRun =>
        LET body == BoardOf(processed)
            counted == Positions(batch,
                           LAMBDA r : /\ ~VoidFlagTrue(r)
                                      /\ StartsWith(ResolvedStage(r),
                                                    KICKPLATE_STAGE_PREFIX))
            listed == Len(body.jobs[1]) + Len(body.jobs[2])
                        + Len(body.jobs[3]) + Len(body.jobs[4])
        IN /\ body.totalCount = Len(counted)
           /\ body.totalCount >= listed
           /\ body.totalCount = listed <=>
                 \A k \in 1..Len(counted) :
                     ResolvedStage(batch[counted[k]]) \in FourStages

\* C25: in every state of a client session, whatever the interleaving of
\* drags, answers to transitions (success or failure) and manual or
\* automatic refreshes, each order id is shown by at most one card of the
\* board.
C25_OneCardPerOrder ==
    \A c1 \in Columns, c2 \in Columns :
        \A i \in 1..Len(board[c1]), j \in 1..Len(board[c2]) :
            board[c1][i].id = board[c2][j].id => (c1 = c2 /\ i = j)

====
